---- MODULE Spec2Model ----
(***************************************************************************)
(* Model of scripts/add_widget_bridge.py: the one-shot patcher that        *)
(* registers WidgetBridge.m, WidgetBridge.swift and WidgetDataManager.swift *)
(* in ios/Brigo.xcodeproj/project.pbxproj.                                  *)
(*                                                                         *)
(* The manifest is a sequence of lexemes.  A lexeme is a maximal piece of   *)
(* text the script's patterns treat as a unit: one of the literal texts the *)
(* regular expressions name, a closing delimiter, or one record line with   *)
(* its 24-hex identifier and file name.  Lexemes are separated by           *)
(* whitespace, as in every manifest Xcode writes and as in the text the     *)
(* script inserts (each inserted line starts with a newline and tabs), so   *)
(* the "+" of [^}]+ and [^)]+ always has a character to consume and the     *)
(* patterns are decided by which lexemes lie between the literals.          *)
(***************************************************************************)
EXTENDS Integers, Sequences, FiniteSets

VARIABLES
    present,   \* the manifest exists and is readable
    disk,      \* text of ios/Brigo.xcodeproj/project.pbxproj on disk
    content,   \* the script's variable `content`
    uuids,     \* the script's six *_uuid variables
    pc,        \* position of the running script
    status,    \* "running", or how the process ended: "ok" (exit status 0) or "failed"
    out,       \* the report the run printed last
    run,       \* how many times the script has been started
    writes,    \* how often the current run wrote the manifest
    steps,     \* the steps the current run has executed, in order
    disk0,     \* the manifest as it was when the current run started
    orig       \* the manifest before the first run

vars == <<present, disk, content, uuids, pc, status, out, run, writes, steps, disk0, orig>>

(***************************************************************************)
(* Bounds of the model.                                                    *)
(***************************************************************************)
MaxRuns == 2      \* successive runs of the script on the same manifest
MaxCopies == 2    \* identical Brigo group records in an input manifest

(***************************************************************************)
(* Lexemes.                                                                *)
(***************************************************************************)
WidgetBridgeM == "WidgetBridge.m"
WidgetBridgeSwift == "WidgetBridge.swift"
WidgetDataManagerSwift == "WidgetDataManager.swift"
AppDelegateSwift == "AppDelegate.swift"

\* A literal text or delimiter:
\*   "Brigo"          /* Brigo */ = {
\*   "Sources"        /* Sources */ = {
\*   "children"       children = (
\*   "files"          files = (
\*   "close"          );
\*   "rparen"         )      not followed by ;
\*   "rbrace"         };
\*   "BeginFileRef"   /* Begin PBXFileReference section */
\*   "BeginBuildFile" /* Begin PBXBuildFile section */
Lit(k) == [k |-> k]

\* <id> /* <file> */,
ChildRef(id, file) == [k |-> "childRef", id |-> id, file |-> file]

\* <id> /* <file> */ = {isa = PBXFileReference; ...; path = <file>; sourceTree = "<group>"; };
FileRecord(id, file) == [k |-> "fileRecord", id |-> id, file |-> file]

\* <id> /* <file> in Sources */,
SourceRef(id, file) == [k |-> "sourceRef", id |-> id, file |-> file]

\* <id> /* <file> in Sources */ = {isa = PBXBuildFile; fileRef = <ref> /* <file> */; };
BuildRecord(id, file, ref) == [k |-> "buildRecord", id |-> id, file |-> file, ref |-> ref]

\* The lexemes that are record lines: they start with a 24-hex identifier and
\* name a file.
IsLine(t) == t.k \in {"childRef", "fileRecord", "sourceRef", "buildRecord"}

\* Character classes of the patterns, per lexeme.
HasRBrace(t) == t.k \in {"rbrace", "fileRecord", "buildRecord"}
HasRParen(t) == t.k \in {"close", "rparen"}
HasHex24(t) == IsLine(t)

\* Identifiers occurring in a document.
IdsIn(doc) ==
    {doc[p].id : p \in {q \in 1..Len(doc) : IsLine(doc[q])}}
        \cup {doc[p].ref : p \in {q \in 1..Len(doc) : doc[q].k = "buildRecord"}}

Count(doc, kind) == Cardinality({p \in 1..Len(doc) : doc[p].k = kind})

Min(S) == CHOOSE x \in S : \A y \in S : x <= y
Max(S) == CHOOSE x \in S : \A y \in S : y <= x

(***************************************************************************)
(* The patterns.                                                           *)
(***************************************************************************)

\* Fault seeded into the existence test: it looks for another of the three
\* file names.
AlreadyAddedOtherName(doc) ==
    \E p \in 1..Len(doc) : IsLine(doc[p]) /\ doc[p].file = WidgetBridgeSwift

\* 'WidgetBridge.m' in content
AlreadyAdded(doc) == \E p \in 1..Len(doc) : IsLine(doc[p]) /\ doc[p].file = WidgetBridgeM

\* re.search(r'\/\* Brigo \*\/ = \{[^}]+children = \([^)]+([A-F0-9]{24})', content)
BrigoGroupMatch(doc) ==
    \E i \in 1..Len(doc) : \E j \in (i+1)..Len(doc) : \E k \in (j+1)..Len(doc) :
        /\ doc[i].k = "Brigo"
        /\ doc[j].k = "children"
        /\ \A m \in (i+1)..(j-1) : ~HasRBrace(doc[m])
        /\ \A m \in (j+1)..(k-1) : ~HasRParen(doc[m])
        /\ HasHex24(doc[k])

\* Position of the first ")" after position j, 0 when there is none.
FirstParenAfter(doc, j) ==
    LET P == {e \in (j+1)..Len(doc) : HasRParen(doc[e])}
    IN  IF P = {} THEN 0 ELSE Min(P)

\* Positions of the list openers with which the pattern
\*   <head>[^}]+<list>[^)]+\);
\* matches when <head> is taken at position i: no "}" up to the opener, and
\* the first ")" after the opener is the ")" of a ");".
ListOpeners(doc, i, list) ==
    {j \in (i+1)..Len(doc) :
        /\ doc[j].k = list
        /\ \A m \in (i+1)..(j-1) : ~HasRBrace(doc[m])
        /\ FirstParenAfter(doc, j) # 0
        /\ doc[FirstParenAfter(doc, j)].k = "close"}

NoMatch == [start |-> 0, stop |-> 0]

\* re.search(r'(<head>[^}]+<list>[^)]+)\);', content): the leftmost <head> at
\* which the pattern matches; [^}]+ is greedy, so the last opener it can reach
\* is taken.  group(0) is doc[start..stop], group(1) is doc[start..stop-1].
ListSectionSearch(doc, head, list) ==
    LET S == {i \in 1..Len(doc) : doc[i].k = head /\ ListOpeners(doc, i, list) # {}}
    IN  IF S = {} THEN NoMatch
        ELSE LET i == Min(S)
             IN  [start |-> i, stop |-> FirstParenAfter(doc, Max(ListOpeners(doc, i, list)))]

\* re.search(<marker>, content).end(): the end of the leftmost marker, 0
\* when the marker does not occur.
MarkerSearch(doc, marker) ==
    LET S == {p \in 1..Len(doc) : doc[p].k = marker}
    IN  IF S = {} THEN 0 ELSE Min(S)

IsPrefixAt(doc, old, p) ==
    /\ p + Len(old) - 1 <= Len(doc)
    /\ \A q \in 1..Len(old) : doc[p + q - 1] = old[q]

\* content.replace(old, new): every occurrence of old, left to right, without
\* overlap.
RECURSIVE ReplaceFrom(_, _, _, _)
ReplaceFrom(doc, old, new, p) ==
    IF p > Len(doc) THEN <<>>
    ELSE IF IsPrefixAt(doc, old, p)
         THEN new \o ReplaceFrom(doc, old, new, p + Len(old))
         ELSE <<doc[p]>> \o ReplaceFrom(doc, old, new, p + 1)

Replace(doc, old, new) == ReplaceFrom(doc, old, new, 1)

\* content[:insert_pos] + new + content[insert_pos:]
InsertAt(doc, pos, new) ==
    SubSeq(doc, 1, pos) \o new \o SubSeq(doc, pos + 1, Len(doc))

(***************************************************************************)
(* The identifiers.                                                        *)
(***************************************************************************)

\* The least identifier not in S.
Fresh(S) == Min({n \in 0..Cardinality(S) : n \notin S})

\* str(uuid.uuid4()).replace('-', '').upper()[:24]: a random identifier.
\* Nothing compares it with the identifiers already in use, so it may equal
\* any of them.  The script only ever tests identifiers for equality, so the
\* identifiers not yet in use are interchangeable and one of them stands for
\* all: the draw is any identifier seen so far or the least unseen one.
Uuid4(seen) == seen \cup {Fresh(seen)}

\* The six variables before lines 17-23 have run, and after the process ended.
NoUuids ==
    [widget_bridge_m_uuid |-> "unset", widget_bridge_swift_uuid |-> "unset",
     widget_data_manager_uuid |-> "unset", widget_bridge_m_build_uuid |-> "unset",
     widget_bridge_swift_build_uuid |-> "unset", widget_data_manager_build_uuid |-> "unset"]

Uuids(a, b, c, d, e, f) ==
    [widget_bridge_m_uuid |-> a, widget_bridge_swift_uuid |-> b,
     widget_data_manager_uuid |-> c, widget_bridge_m_build_uuid |-> d,
     widget_bridge_swift_build_uuid |-> e, widget_data_manager_build_uuid |-> f]

UuidSet(u) ==
    {u.widget_bridge_m_uuid, u.widget_bridge_swift_uuid, u.widget_data_manager_uuid,
     u.widget_bridge_m_build_uuid, u.widget_bridge_swift_build_uuid,
     u.widget_data_manager_build_uuid}

(***************************************************************************)
(* The text the script inserts.                                            *)
(***************************************************************************)

\* Fault seeded into the group patch: the WidgetBridge.m line is left out.
NewChildrenWithoutM(u) ==
    << ChildRef(u.widget_bridge_swift_uuid, WidgetBridgeSwift),
       ChildRef(u.widget_data_manager_uuid, WidgetDataManagerSwift),
       Lit("close") >>

\* The three child lines and the closing ");" appended to group(1).
NewChildren(u) ==
    << ChildRef(u.widget_bridge_m_uuid, WidgetBridgeM),
       ChildRef(u.widget_bridge_swift_uuid, WidgetBridgeSwift),
       ChildRef(u.widget_data_manager_uuid, WidgetDataManagerSwift),
       Lit("close") >>

NewRefs(u) ==
    << FileRecord(u.widget_bridge_m_uuid, WidgetBridgeM),
       FileRecord(u.widget_bridge_swift_uuid, WidgetBridgeSwift),
       FileRecord(u.widget_data_manager_uuid, WidgetDataManagerSwift) >>

\* The three lines and the closing ");" appended to group(1).
NewSources(u) ==
    << SourceRef(u.widget_bridge_m_build_uuid, WidgetBridgeM),
       SourceRef(u.widget_bridge_swift_build_uuid, WidgetBridgeSwift),
       SourceRef(u.widget_data_manager_build_uuid, WidgetDataManagerSwift),
       Lit("close") >>

NewBuildFiles(u) ==
    << BuildRecord(u.widget_bridge_m_build_uuid, WidgetBridgeM, u.widget_bridge_m_uuid),
       BuildRecord(u.widget_bridge_swift_build_uuid, WidgetBridgeSwift, u.widget_bridge_swift_uuid),
       BuildRecord(u.widget_data_manager_build_uuid, WidgetDataManagerSwift,
                   u.widget_data_manager_uuid) >>

\* The section patches of lines 38-48 and 61-70: when the pattern matches,
\* every occurrence of its match is replaced by group(1) and the new lines.
PatchList(doc, head, list, new) ==
    LET sec == ListSectionSearch(doc, head, list)
    IN  IF sec # NoMatch
        THEN Replace(doc, SubSeq(doc, sec.start, sec.stop),
                     SubSeq(doc, sec.start, sec.stop - 1) \o new)
        ELSE doc

\* The insertions of lines 50-59 and 72-81: right after the section marker,
\* when there is one.
PatchSection(doc, marker, new) ==
    LET insert_pos == MarkerSearch(doc, marker)
    IN  IF insert_pos # 0 THEN InsertAt(doc, insert_pos, new) ELSE doc

(***************************************************************************)
(* The input manifests: the sections of a project.pbxproj that the script  *)
(* looks at, in the order Xcode writes them, each present or not, around   *)
(* the one source file the project already holds.                          *)
(***************************************************************************)

\* The identifier of the file the project already holds.
OldId == Fresh({})

\* The file the project already holds: some other file, or one of the three.
OldFiles == {AppDelegateSwift, WidgetBridgeM, WidgetBridgeSwift, WidgetDataManagerSwift}

BuildFileSection(has) == IF has THEN <<Lit("BeginBuildFile")>> ELSE <<>>

FileRefSection(has, file) ==
    IF has THEN <<Lit("BeginFileRef"), FileRecord(OldId, file)>> ELSE <<>>

RECURSIVE Repeat(_, _)
Repeat(s, n) == IF n = 0 THEN <<>> ELSE s \o Repeat(s, n - 1)

\* A Brigo group record, by the shape of its child list.  "closed": the list
\* names the old file and ends in ");".  "empty": the list is empty.  "open":
\* the list ends in a ")" without ";".  "broken": a "};" before the list.
GroupRecord(shape, file) ==
    CASE shape = "closed" ->
            <<Lit("Brigo"), Lit("children"), ChildRef(OldId, file), Lit("close"), Lit("rbrace")>>
      [] shape = "empty" ->
            <<Lit("Brigo"), Lit("children"), Lit("close"), Lit("rbrace")>>
      [] shape = "open" ->
            <<Lit("Brigo"), Lit("children"), ChildRef(OldId, file), Lit("rparen"), Lit("rbrace")>>
      [] shape = "broken" ->
            <<Lit("Brigo"), Lit("rbrace"), Lit("children"), ChildRef(OldId, file), Lit("close"),
              Lit("rbrace")>>

\* The PBXGroup section: no Brigo group, one of any shape, or up to MaxCopies
\* identical closed ones.
GroupKinds == ({"empty", "open", "broken"} \X {1}) \cup ({"closed"} \X (0..MaxCopies))

GroupSection(kind, file) == Repeat(GroupRecord(kind[1], file), kind[2])

SourcesSection(has) ==
    IF has THEN <<Lit("Sources"), Lit("files"), Lit("close"), Lit("rbrace")>> ELSE <<>>

Documents ==
    {BuildFileSection(b) \o FileRefSection(r, file) \o GroupSection(g, file)
        \o SourcesSection(s) :
        b \in BOOLEAN, r \in BOOLEAN, file \in OldFiles, g \in GroupKinds, s \in BOOLEAN}

(***************************************************************************)
(* The script, step by step.                                               *)
(***************************************************************************)

Init ==
    /\ present \in BOOLEAN
    /\ disk \in Documents
    /\ content = <<>>
    /\ uuids = NoUuids
    /\ pc = "load"
    /\ status = "running"
    /\ out = "nothing"
    /\ run = 1
    /\ writes = 0
    /\ steps = <<>>
    /\ disk0 = disk
    /\ orig = disk

\* The process ends: its variables are gone.
Exit(st, report) ==
    /\ pc' = "done"
    /\ status' = st
    /\ out' = report
    /\ content' = <<>>
    /\ uuids' = NoUuids

\* Lines 12-14: read the project file.  open() raises when the file is
\* missing or unreadable and the script ends with a traceback.
Load ==
    /\ pc = "load"
    /\ steps' = Append(steps, "load")
    /\ IF present
       THEN /\ content' = disk
            /\ pc' = "check"
            /\ UNCHANGED <<uuids, status, out>>
       ELSE Exit("failed", "traceback")
    /\ UNCHANGED <<present, disk, run, writes, disk0, orig>>

\* Lines 16-30: draw the six identifiers, then leave if the files are
\* already in the project.  The identifiers drawn before leaving are never
\* used and end with the process.
CheckAdded ==
    /\ pc = "check"
    /\ steps' = Append(steps, "check")
    /\ IF AlreadyAdded(content)
       THEN Exit("ok", "already in project")
       ELSE /\ LET s0 == IdsIn(content)
               IN  \E a \in Uuid4(s0) : \E b \in Uuid4(s0 \cup {a}) :
                   \E c \in Uuid4(s0 \cup {a, b}) : \E d \in Uuid4(s0 \cup {a, b, c}) :
                   \E e \in Uuid4(s0 \cup {a, b, c, d}) :
                   \E f \in Uuid4(s0 \cup {a, b, c, d, e}) :
                       uuids' = Uuids(a, b, c, d, e, f)
            /\ pc' = "find_group"
            /\ UNCHANGED <<content, status, out>>
    /\ UNCHANGED <<present, disk, run, writes, disk0, orig>>

\* Fault seeded into the group test: the diagnostic is printed but the
\* exit(1) is missing.
FindGroupNoExit ==
    /\ pc = "find_group"
    /\ steps' = Append(steps, "find_group")
    /\ out' = IF ~BrigoGroupMatch(content) THEN "could not find Brigo group" ELSE out
    /\ pc' = "patch_group"
    /\ UNCHANGED <<present, disk, content, uuids, status, run, writes, disk0, orig>>

\* Lines 32-36: leave with a diagnostic if the Brigo group is not found.
FindGroup ==
    /\ pc = "find_group"
    /\ steps' = Append(steps, "find_group")
    /\ IF ~BrigoGroupMatch(content)
       THEN Exit("failed", "could not find Brigo group")
       ELSE /\ pc' = "patch_group"
            /\ UNCHANGED <<content, uuids, status, out>>
    /\ UNCHANGED <<present, disk, run, writes, disk0, orig>>

\* Lines 38-48: add the three files to the Brigo group's children.
PatchGroup ==
    /\ pc = "patch_group"
    /\ steps' = Append(steps, "patch_group")
    /\ content' = PatchList(content, "Brigo", "children", NewChildren(uuids))
    /\ pc' = "patch_file_ref"
    /\ UNCHANGED <<present, disk, uuids, status, out, run, writes, disk0, orig>>

\* Lines 50-59: add the PBXFileReference entries.
PatchFileRef ==
    /\ pc = "patch_file_ref"
    /\ steps' = Append(steps, "patch_file_ref")
    /\ content' = PatchSection(content, "BeginFileRef", NewRefs(uuids))
    /\ pc' = "patch_sources"
    /\ UNCHANGED <<present, disk, uuids, status, out, run, writes, disk0, orig>>

\* Lines 61-70: add the three files to the Sources build phase.
PatchSources ==
    /\ pc = "patch_sources"
    /\ steps' = Append(steps, "patch_sources")
    /\ content' = PatchList(content, "Sources", "files", NewSources(uuids))
    /\ pc' = "patch_build_file"
    /\ UNCHANGED <<present, disk, uuids, status, out, run, writes, disk0, orig>>

\* Fault seeded into the last patch: the patched text is written out at once,
\* before the write at the end.
PatchBuildFilePersist ==
    /\ pc = "patch_build_file"
    /\ steps' = Append(steps, "patch_build_file")
    /\ content' = PatchSection(content, "BeginBuildFile", NewBuildFiles(uuids))
    /\ disk' = content'
    /\ writes' = writes + 1
    /\ pc' = "write"
    /\ UNCHANGED <<present, uuids, status, out, run, disk0, orig>>

\* Lines 72-81: add the PBXBuildFile entries.
PatchBuildFile ==
    /\ pc = "patch_build_file"
    /\ steps' = Append(steps, "patch_build_file")
    /\ content' = PatchSection(content, "BeginBuildFile", NewBuildFiles(uuids))
    /\ pc' = "write"
    /\ UNCHANGED <<present, disk, uuids, status, out, run, writes, disk0, orig>>

\* Lines 83-91: write the project file back, report, and end.
WriteBack ==
    /\ pc = "write"
    /\ steps' = Append(steps, "write")
    /\ disk' = content
    /\ writes' = writes + 1
    /\ Exit("ok", "files added")
    /\ UNCHANGED <<present, run, disk0, orig>>

\* The script is run again on the manifest the last run left.
RunAgain ==
    /\ pc = "done"
    /\ run < MaxRuns
    /\ run' = run + 1
    /\ pc' = "load"
    /\ status' = "running"
    /\ out' = "nothing"
    /\ writes' = 0
    /\ steps' = <<>>
    /\ disk0' = disk
    /\ UNCHANGED <<present, disk, content, uuids, orig>>

Next ==
    \/ Load
    \/ CheckAdded
    \/ FindGroup
    \/ PatchGroup
    \/ PatchFileRef
    \/ PatchSources
    \/ PatchBuildFile
    \/ WriteBack
    \/ RunAgain

Spec == Init /\ [][Next]_vars

(***************************************************************************)
(* Properties.                                                             *)
(***************************************************************************)

\* The file name occurs somewhere in the document.
Mentions(doc, file) == \E p \in 1..Len(doc) : IsLine(doc[p]) /\ doc[p].file = file

MentionsAny(doc) ==
    \/ Mentions(doc, WidgetBridgeM)
    \/ Mentions(doc, WidgetBridgeSwift)
    \/ Mentions(doc, WidgetDataManagerSwift)

\* The run has executed the step.
Did(step) == \E i \in DOMAIN steps : steps[i] = step

\* The lexemes of new occur in doc, one after the other.
Holds(doc, new) == \E p \in 1..Len(doc) : IsPrefixAt(doc, new, p)

AllSteps ==
    <<"load", "check", "find_group", "patch_group", "patch_file_ref", "patch_sources",
      "patch_build_file", "write">>

\* C1: a run on a manifest that contains 'WidgetBridge.m' writes nothing: the
\* manifest on disk stays what it was, and the run ends with exit status 0.
C1_MarkerNoWrite ==
    (present /\ Mentions(disk0, WidgetBridgeM)) =>
        /\ disk = disk0
        /\ writes = 0
        /\ pc = "done" => status = "ok"

C1_Witness ==
    /\ pc = "done"
    /\ present
    /\ Mentions(disk0, WidgetBridgeM)
    /\ Did("check")
    /\ BrigoGroupMatch(disk0)

\* C2: on a manifest that has both section markers, a Brigo group with a child
\* list and a Sources phase with a files list, and none of the three file
\* names, the run adds exactly three entries to each of the four sections and
\* nothing else, and the written manifest contains 'WidgetBridge.m'.
C2_ThreePerSection ==
    ( /\ pc = "done"
      /\ present
      /\ MarkerSearch(disk0, "BeginFileRef") # 0
      /\ MarkerSearch(disk0, "BeginBuildFile") # 0
      /\ ListSectionSearch(disk0, "Brigo", "children") # NoMatch
      /\ ListSectionSearch(disk0, "Sources", "files") # NoMatch
      /\ ~MentionsAny(disk0) ) =>
        /\ out = "files added"
        /\ Count(disk, "fileRecord") = Count(disk0, "fileRecord") + 3
        /\ Count(disk, "buildRecord") = Count(disk0, "buildRecord") + 3
        /\ Count(disk, "childRef") = Count(disk0, "childRef") + 3
        /\ Count(disk, "sourceRef") = Count(disk0, "sourceRef") + 3
        /\ Len(disk) = Len(disk0) + 12
        /\ Mentions(disk, WidgetBridgeM)

\* C3: a run that follows another run changes nothing: the manifest after it
\* is the manifest the run before it left.
C3_SecondRunNoChange == run > 1 => disk = disk0

C3_Witness ==
    /\ run = 2
    /\ pc = "done"
    /\ disk0 # orig
    /\ out = "already in project"

\* C4: a run on a loadable manifest ends in one of three ways: the manifest
\* unchanged and "already in project" reported; three file records and three
\* build records added and success reported; or a diagnostic and a failure
\* status because a section was not found.
C4_ThreeOutcomes ==
    (pc = "done" /\ present) =>
        \/ out = "already in project" /\ disk = disk0
        \/ /\ out = "files added"
           /\ Count(disk, "fileRecord") = Count(disk0, "fileRecord") + 3
           /\ Count(disk, "buildRecord") = Count(disk0, "buildRecord") + 3
        \/ out = "could not find Brigo group" /\ status = "failed"

\* C5: if any of the three file names occurs in the manifest, the run is
\* skipped and the manifest is left untouched.
C5_AnyNameSkips ==
    (pc = "done" /\ present /\ MentionsAny(disk0)) => (disk = disk0 /\ writes = 0)

\* C6: if the Brigo group is not found (and 'WidgetBridge.m' does not occur),
\* the run prints the diagnostic, ends with a failure status and writes
\* nothing.
C6_NoGroupNoWrite ==
    (present /\ ~Mentions(disk0, WidgetBridgeM) /\ ~BrigoGroupMatch(disk0)) =>
        /\ disk = disk0
        /\ writes = 0
        /\ pc = "done" =>
              (status = "failed" /\ out = "could not find Brigo group" /\ ~Did("patch_group"))

C6_Witness ==
    /\ pc = "done"
    /\ present
    /\ ~Mentions(disk0, WidgetBridgeM)
    /\ ~BrigoGroupMatch(disk0)
    /\ Did("find_group")
    /\ Count(disk0, "Brigo") > 0

\* C7: if the manifest has no Sources build phase, the run that gets to the
\* build-phase patch ends with a failure status and leaves the manifest as it
\* was.
C7_NoSourcesFails ==
    (pc = "done" /\ Did("patch_sources") /\ Count(disk0, "Sources") = 0) =>
        (status = "failed" /\ disk = disk0)

\* C8: in a run that patches the manifest the six identifiers drawn are
\* pairwise distinct, and none of them is an identifier of the input.
C8_UniqueIds ==
    (pc = "write" /\ content # disk0) =>
        /\ Cardinality(UuidSet(uuids)) = 6
        /\ UuidSet(uuids) \cap IdsIn(disk0) = {}

\* C9: in the document the run is about to write, the new build entries (the
\* PBXBuildFile records, the Sources references) come with the three new
\* PBXFileReference records they point to.
C9_BuildEntriesPaired ==
    ( /\ pc = "write"
      /\ \/ Holds(content, NewBuildFiles(uuids))
         \/ Holds(content, NewSources(uuids)) ) =>
        Holds(content, NewRefs(uuids))

\* C10: a run writes the manifest at most once, and only as its last step,
\* after the load, the two checks and the four patches; until then, and on
\* every path that ends earlier, the manifest on disk is the original.
C10_WriteOnceAtEnd ==
    /\ writes <= 1
    /\ writes = 1 => (pc = "done" /\ steps = AllSteps)
    /\ writes = 0 => disk = disk0
    /\ (pc = "done" /\ out # "files added") => (writes = 0 /\ disk = disk0)

C10_Witness ==
    /\ pc = "done"
    /\ writes = 1
    /\ disk # disk0
    /\ steps = AllSteps

====
